---- MODULE Spec2Model ----
(***************************************************************************)
(* Model of src/alert-watcher/watcher.py: the WatcherState (sliding        *)
(* window, cooldown gate), detect_failover, check_error_rate,              *)
(* parse_log_line and the main loop.                                       *)
(*                                                                         *)
(* Python values:                                                          *)
(*   str            a sequence of one-character strings                    *)
(*   None / value   None == << >>, Some(v) == << v >>                      *)
(*   dict           a function whose DOMAIN is the set of keys             *)
(*   time.time()    an integer number of seconds; every reading is the     *)
(*                  previous reading plus a tick >= 0                      *)
(***************************************************************************)
EXTENDS Integers, Sequences, FiniteSets, TLC

\* ------------------------------------------------------------------ bounds
MaxClock == 5        \* the clock is not advanced beyond this reading
MaxTick == 1         \* largest advance of the clock between two readings
MinStart == 1        \* earliest clock reading at start-up
MaxStart == 2        \* latest clock reading at start-up
MaxCooldown == 2     \* largest configured ALERT_COOLDOWN_SEC
MaxWindow == 2       \* largest configured WINDOW_SIZE
MaxRequests == 5     \* add_request is not called more often than this
MaxPace == 2         \* end to end: the largest steady advance of the clock per reading
MaxFields == 7       \* the parser: a line has at most this many fields
MaxLines == 10       \* the loop: main does not parse more lines than this

\* --------------------------------------------------------- python helpers
None == << >>
Some(v) == << v >>

\* truth value of an Optional[float]: None and 0.0 are falsy
Truthy(o) == o # None /\ o[1] # 0

Min(a, b) == IF a <= b THEN a ELSE b

\* dict.get(key, default)
Get(d, key, default) == IF key \in DOMAIN d THEN d[key] ELSE default

\* d[key] = value
Put(d, key, value) == [k \in (DOMAIN d) \cup {key} |-> IF k = key THEN value ELSE d[k]]

\* ---------------------------------------------------------------- strings
\* str.lower() of one character, over the letters the model's strings use
LowerChar(c) ==
    CASE c = "B" -> "b" [] c = "L" -> "l" [] c = "U" -> "u" [] c = "E" -> "e"
      [] c = "G" -> "g" [] c = "R" -> "r" [] c = "N" -> "n" [] c = "I" -> "i"
      [] c = "F" -> "f" [] c = "A" -> "a" [] c = "T" -> "t" [] c = "Y" -> "y"
      [] c = "V" -> "v"
      [] OTHER -> c

\* str.lower()
Lower(s) == [i \in 1..Len(s) |-> LowerChar(s[i])]

\* str.startswith(prefix)
StartsWith(s, prefix) ==
    Len(s) >= Len(prefix) /\ SubSeq(s, 1, Len(prefix)) = prefix

\* the characters str.strip() removes
IsSpace(c) == c \in {" ", "\t", "\n", "\r", "\f"}

RECURSIVE LStrip(_)
LStrip(s) == IF s # << >> /\ IsSpace(Head(s)) THEN LStrip(Tail(s)) ELSE s

RECURSIVE RStrip(_)
RStrip(s) ==
    IF s # << >> /\ IsSpace(s[Len(s)]) THEN RStrip(SubSeq(s, 1, Len(s) - 1)) ELSE s

\* str.strip()
Strip(s) == RStrip(LStrip(s))

\* str.split(sep) for a one-character separator: the list of parts
RECURSIVE SplitFrom(_, _, _)
SplitFrom(s, sep, part) ==
    IF s = << >> THEN << part >>
    ELSE IF Head(s) = sep THEN << part >> \o SplitFrom(Tail(s), sep, << >>)
    ELSE SplitFrom(Tail(s), sep, Append(part, Head(s)))

Split(s, sep) == SplitFrom(s, sep, << >>)

\* ---------------------------------------------------------------- numbers
IsDigit(c) == c \in {"0", "1", "2", "3", "4", "5", "6", "7", "8", "9"}

DigitVal(c) ==
    CASE c = "0" -> 0 [] c = "1" -> 1 [] c = "2" -> 2 [] c = "3" -> 3
      [] c = "4" -> 4 [] c = "5" -> 5 [] c = "6" -> 6 [] c = "7" -> 7
      [] c = "8" -> 8 [] c = "9" -> 9

\* digits, with single underscores allowed between two digits
IsDigitPart(s) ==
    /\ s # << >>
    /\ \A i \in 1..Len(s) :
          \/ IsDigit(s[i])
          \/ /\ s[i] = "_"
             /\ 1 < i /\ i < Len(s)
             /\ IsDigit(s[i - 1]) /\ IsDigit(s[i + 1])

RECURSIVE DigitsValue(_, _)
DigitsValue(s, acc) ==
    IF s = << >> THEN acc
    ELSE IF Head(s) = "_" THEN DigitsValue(Tail(s), acc)
    ELSE DigitsValue(Tail(s), 10 * acc + DigitVal(Head(s)))

HasSign(s) == s # << >> /\ Head(s) \in {"+", "-"}
Unsigned(s) == IF HasSign(s) THEN Tail(s) ELSE s
SignOf(s) == IF HasSign(s) /\ Head(s) = "-" THEN -1 ELSE 1

\* int(s) succeeds (s already stripped)
IsInt(s) == IsDigitPart(Unsigned(s))

\* int(s)
IntValue(s) == SignOf(s) * DigitsValue(Unsigned(s), 0)

\* the mantissa of a float literal: digits, digits. , digits.digits , .digits
IsMantissa(m) ==
    LET p == Split(m, ".")
    IN  \/ Len(p) = 1 /\ IsDigitPart(p[1])
        \/ /\ Len(p) = 2
           /\ \/ IsDigitPart(p[1]) /\ (p[2] = << >> \/ IsDigitPart(p[2]))
              \/ p[1] = << >> /\ IsDigitPart(p[2])

\* float(s) succeeds (s already stripped)
IsFloat(s) ==
    LET l == Lower(Unsigned(s))
        p == Split(l, "e")
    IN  \/ l \in {<<"i", "n", "f">>, <<"n", "a", "n">>,
                  <<"i", "n", "f", "i", "n", "i", "t", "y">>}
        \/ Len(p) = 1 /\ IsMantissa(p[1])
        \/ Len(p) = 2 /\ IsMantissa(p[1]) /\ IsInt(p[2])

\* n * 10^e with n not a multiple of 10 (zero is 0 * 10^0)
RECURSIVE Normal(_, _)
Normal(n, e) ==
    IF n = 0 THEN [n |-> 0, e |-> 0]
    ELSE IF n % 10 = 0 THEN Normal(n \div 10, e + 1)
    ELSE [n |-> n, e |-> e]

\* float(s) as a decimal: sign * n * 10^e, or inf, or nan
FloatValue(s) ==
    LET l == Lower(Unsigned(s))
        p == Split(l, "e")
        m == Split(p[1], ".")
        frac == IF Len(m) = 2 THEN SelectSeq(m[2], IsDigit) ELSE << >>
        exp == IF Len(p) = 2 THEN IntValue(p[2]) ELSE 0
        v == Normal(DigitsValue(m[1] \o frac, 0), exp - Len(frac))
    IN  IF l = <<"n", "a", "n">> THEN [kind |-> "nan"]
        ELSE IF l \in {<<"i", "n", "f">>, <<"i", "n", "f", "i", "n", "i", "t", "y">>}
        THEN [kind |-> "inf", sign |-> SignOf(s)]
        ELSE [kind |-> "finite", sign |-> IF v.n = 0 THEN 1 ELSE SignOf(s),
              n |-> v.n, e |-> v.e]

Zero == [kind |-> "finite", sign |-> 1, n |-> 0, e |-> 0]

\* ------------------------------------------------------------ LineParser
\* parse_log_line with the fields not stripped before they are returned
parse_log_line_untrimmed(line) ==
    LET parts == Split(Strip(line), "|")
        f(i) == Strip(parts[i])
    IN  IF Len(parts) < 6 THEN None
        ELSE IF \/ f(3) # << >> /\ ~IsInt(f(3))
                \/ f(5) # << >> /\ ~IsFloat(f(5))
                \/ f(6) # << >> /\ ~IsFloat(f(6))
        THEN None
        ELSE Some([pool |-> parts[1],
                   release |-> parts[2],
                   upstream_status |-> IF f(3) # << >> THEN IntValue(f(3)) ELSE 0,
                   upstream_addr |-> parts[4],
                   request_time |-> IF f(5) # << >> THEN FloatValue(f(5)) ELSE Zero,
                   upstream_response_time |->
                       IF f(6) # << >> THEN FloatValue(f(6)) ELSE Zero])

\* parse_log_line(line): None, or Some(the record of the first six fields)
parse_log_line(line) ==
    LET parts == Split(Strip(line), "|")
        f(i) == Strip(parts[i])
    IN  IF Len(parts) < 6 THEN None
        ELSE IF \/ f(3) # << >> /\ ~IsInt(f(3))
                \/ f(5) # << >> /\ ~IsFloat(f(5))
                \/ f(6) # << >> /\ ~IsFloat(f(6))
        THEN None
        ELSE Some([pool |-> f(1),
                   release |-> f(2),
                   upstream_status |-> IF f(3) # << >> THEN IntValue(f(3)) ELSE 0,
                   upstream_addr |-> f(4),
                   request_time |-> IF f(5) # << >> THEN FloatValue(f(5)) ELSE Zero,
                   upstream_response_time |->
                       IF f(6) # << >> THEN FloatValue(f(6)) ELSE Zero])

\* ------------------------------------------------------------ alert types
AlertTypes == {"failover", "error_rate", "recovery"}

\* ------------------------------------------------------------ pool names
blue == <<"b", "l", "u", "e">>
green == <<"g", "r", "e", "e", "n">>
BlueB == <<"B", "l", "u", "e", "-", "b">>
Unknown == <<"U", "n", "k", "n", "o", "w", "n">>
Pools == {blue, green, BlueB}

\* the pool is a primary one: its name starts with "blue", in any case
IsPrimary(pool) == StartsWith(Lower(pool), blue)

\* ------------------------------------------------ configuration defaults
DEFAULT_ERROR_RATE_THRESHOLD == 2
DEFAULT_WINDOW_SIZE == 200
DEFAULT_ALERT_COOLDOWN_SEC == 300
CHECK_EVERY == 10

\* -------------------------------------------------------------- variables
VARIABLES
    SLACK_WEBHOOK_URL,     \* TRUE iff the webhook URL is a non-empty string
    ERROR_RATE_THRESHOLD,  \* percent
    WINDOW_SIZE,
    ALERT_COOLDOWN_SEC,
    MAINTENANCE_MODE,
    request_window,        \* state.request_window
    current_pool,          \* state.current_pool
    last_alert_times,      \* state.last_alert_times
    failover_start_time,   \* state.failover_start_time
    total_requests,        \* state.total_requests
    now,                   \* the latest reading of time.time()
    clock,                 \* environment: how time.time() can advance
    calls,                 \* history: the number of add_request calls made
    lastOp,                \* history: what the latest call did
    grants,                \* history: per alert type, the time of the latest
                           \*          can_send_alert call that returned true
    left_primary,          \* history: when the active pool last went from a
                           \*          primary pool to another one, and whether
                           \*          a recovery was notified since
    script,                \* test driver: the calls it still has to make
    results                \* test driver: what its calls did

config == <<SLACK_WEBHOOK_URL, ERROR_RATE_THRESHOLD, WINDOW_SIZE,
            ALERT_COOLDOWN_SEC, MAINTENANCE_MODE>>
state == <<request_window, current_pool, last_alert_times,
           failover_start_time, total_requests>>
driver == <<script, results>>
history == <<calls, lastOp, grants, left_primary>>
vars == <<config, state, now, clock, history, driver>>

\* ------------------------------------------------------------------ clock
\* the values time.time() can return when its latest reading was clk: the
\* clock never goes back, and is not followed beyond clock.cap
Reads(clk) == {clk + d : d \in clock.ticks} \cap (0..clock.cap)

\* --------------------------------------------------------- SlidingWindow
\* deque.append without the eviction
DequeAppend_unbounded(w, x) == Append(w, x)

\* deque(maxlen=WINDOW_SIZE).append(x)
DequeAppend(w, x) ==
    IF WINDOW_SIZE = 0 THEN w
    ELSE IF Len(w) = WINDOW_SIZE THEN Append(Tail(w), x)
    ELSE Append(w, x)

\* add_request(status, pool) when the clock read clk last: its possible
\* outcomes; arrival numbers the insertions (history, not read by the program)
add_request(w, total, status, pool, clk, arrival) ==
    {[request_window |->
          DequeAppend(w, [status |-> status, pool |-> pool, timestamp |-> ts,
                          arrival |-> arrival]),
      total_requests |-> total + 1,
      now |-> ts] : ts \in Reads(clk)}

\* ErrorCount with the upper limit of the range included
ErrorCount_inclusive(w) ==
    Cardinality({i \in DOMAIN w : 500 <= w[i].status /\ w[i].status <= 600})

\* sum(1 for req in request_window if 500 <= req['status'] < 600)
ErrorCount(w) ==
    Cardinality({i \in DOMAIN w : 500 <= w[i].status /\ w[i].status < 600})

\* The double (e / n) * 100 against the real 100e/n, where that real is a
\* double itself (n <= 200): 1 when the double is larger, -1 when smaller.
RoundsUp ==
    {<<11, 20>>, <<7, 25>>, <<14, 25>>, <<11, 40>>, <<22, 40>>, <<7, 50>>,
     <<14, 50>>, <<28, 50>>, <<33, 60>>, <<21, 75>>, <<42, 75>>, <<11, 80>>,
     <<22, 80>>, <<44, 80>>, <<49, 80>>, <<7, 100>>, <<14, 100>>, <<28, 100>>,
     <<55, 100>>, <<56, 100>>, <<33, 120>>, <<66, 120>>, <<35, 125>>,
     <<70, 125>>, <<77, 140>>, <<21, 150>>, <<42, 150>>, <<84, 150>>,
     <<11, 160>>, <<22, 160>>, <<44, 160>>, <<49, 160>>, <<83, 160>>,
     <<88, 160>>, <<93, 160>>, <<98, 160>>, <<49, 175>>, <<98, 175>>,
     <<99, 180>>, <<7, 200>>, <<14, 200>>, <<28, 200>>, <<55, 200>>,
     <<56, 200>>, <<109, 200>>, <<110, 200>>, <<111, 200>>, <<112, 200>>}

RoundsDown ==
    {<<23, 40>>, <<29, 50>>, <<23, 80>>, <<41, 80>>, <<46, 80>>, <<51, 80>>,
     <<29, 100>>, <<57, 100>>, <<58, 100>>, <<69, 120>>, <<87, 150>>,
     <<23, 160>>, <<41, 160>>, <<46, 160>>, <<51, 160>>, <<82, 160>>,
     <<87, 160>>, <<92, 160>>, <<97, 160>>, <<102, 160>>, <<29, 200>>,
     <<57, 200>>, <<58, 200>>, <<113, 200>>, <<114, 200>>, <<115, 200>>,
     <<116, 200>>}

FloatUlp(e, n) ==
    IF <<e, n>> \in RoundsUp THEN 1
    ELSE IF <<e, n>> \in RoundsDown THEN -1
    ELSE 0

\* get_error_rate(): the percentage num / den, and the side on which the
\* double the code computes lies of it (ulp)
get_error_rate(w) ==
    IF Len(w) = 0 THEN [num |-> 0, den |-> 1, ulp |-> 0]
    ELSE [num |-> 100 * ErrorCount(w), den |-> Len(w),
          ulp |-> FloatUlp(ErrorCount(w), Len(w))]

\* error_rate > threshold, for a threshold of a whole number of percent
RateExceeds(rate, threshold) ==
    \/ rate.num > threshold * rate.den
    \/ rate.num = threshold * rate.den /\ rate.ulp > 0

\* -------------------------------------------------------------- AlertGate
\* cooldown_check with the grant not recorded
cooldown_check_unrecorded(lat, alert_type, current_time) ==
    LET last_time == Get(lat, alert_type, 0)
    IN  [ret |-> current_time - last_time >= ALERT_COOLDOWN_SEC,
         last_alert_times |-> lat, now |-> current_time]

\* cooldown_check with > for >=
cooldown_check_strict(lat, alert_type, current_time) ==
    LET last_time == Get(lat, alert_type, 0)
    IN  IF current_time - last_time > ALERT_COOLDOWN_SEC
        THEN [ret |-> TRUE,
              last_alert_times |-> Put(lat, alert_type, current_time),
              now |-> current_time]
        ELSE [ret |-> FALSE, last_alert_times |-> lat, now |-> current_time]

\* cooldown_check with one timer shared by all alert types
cooldown_check_shared(lat, alert_type, current_time) ==
    LET last_time == Get(lat, alert_type, 0)
    IN  IF current_time - last_time >= ALERT_COOLDOWN_SEC
        THEN [ret |-> TRUE,
              last_alert_times |-> [k \in AlertTypes |-> current_time],
              now |-> current_time]
        ELSE [ret |-> FALSE, last_alert_times |-> lat, now |-> current_time]

\* can_send_alert(alert_type) once time.time() has returned current_time:
\* the result and the mapping left behind
cooldown_check(lat, alert_type, current_time) ==
    LET last_time == Get(lat, alert_type, 0)
    IN  IF current_time - last_time >= ALERT_COOLDOWN_SEC
        THEN [ret |-> TRUE,
              last_alert_times |-> Put(lat, alert_type, current_time),
              now |-> current_time]
        ELSE [ret |-> FALSE, last_alert_times |-> lat, now |-> current_time]

\* can_send_alert without the maintenance-mode override
can_send_alert_unsuppressed(lat, alert_type, clk) ==
    {cooldown_check(lat, alert_type, current_time) : current_time \in Reads(clk)}

\* can_send_alert(alert_type) when the clock read clk last: its possible
\* outcomes (maintenance mode returns before the clock is read)
can_send_alert(lat, alert_type, clk) ==
    IF MAINTENANCE_MODE
    THEN {[ret |-> FALSE, last_alert_times |-> lat, now |-> clk]}
    ELSE {cooldown_check(lat, alert_type, current_time) :
              current_time \in Reads(clk)}

\* what the history records of one can_send_alert call
Attempt(alert_type, g) == [type |-> alert_type, time |-> g.now, ret |-> g.ret]

\* --------------------------------------------------------------- Notifier
\* what requests.post does: answers 200, answers another status, or raises
Responses == {"200", "500", "raise"}

\* send_slack_alert(alert_type, data): its possible results
send_slack_alert(alert_type, data) ==
    IF ~SLACK_WEBHOOK_URL THEN {FALSE}
    ELSE IF alert_type \notin AlertTypes THEN {FALSE}
    ELSE {response = "200" : response \in Responses}

\* what the history can record of one send_slack_alert call
Sent(alert_type, data) ==
    {[type |-> alert_type, data |-> data, delivered |-> b] :
         b \in send_slack_alert(alert_type, data)}

\* ------------------------------------------------------- FailoverDetector
\* failover_alert with the recorded send time taken back when the delivery
\* fails
failover_alert_refunded(cp, lat, fst, new_pool, clk) ==
    UNION {
        IF g.ret
        THEN {[last_alert_times |->
                   IF s.delivered THEN g.last_alert_times ELSE lat,
               failover_start_time |-> Some(t), now |-> t,
               attempts |-> << Attempt("failover", g) >>, sent |-> << s >>] :
                  t \in Reads(g.now),
                  s \in Sent("failover",
                             [from_pool |-> cp[1], to_pool |-> new_pool])}
        ELSE {[last_alert_times |-> g.last_alert_times,
               failover_start_time |-> fst, now |-> g.now,
               attempts |-> << Attempt("failover", g) >>, sent |-> << >>]}
        : g \in can_send_alert(lat, "failover", clk)}

\* detect_failover, the failover alert: what it leaves behind
failover_alert(cp, lat, fst, new_pool, clk) ==
    UNION {
        IF g.ret
        THEN {[last_alert_times |-> g.last_alert_times,
               failover_start_time |-> Some(t), now |-> t,
               attempts |-> << Attempt("failover", g) >>, sent |-> << s >>] :
                  t \in Reads(g.now),
                  s \in Sent("failover",
                             [from_pool |-> cp[1], to_pool |-> new_pool])}
        ELSE {[last_alert_times |-> g.last_alert_times,
               failover_start_time |-> fst, now |-> g.now,
               attempts |-> << Attempt("failover", g) >>, sent |-> << >>]}
        : g \in can_send_alert(lat, "failover", clk)}

\* recovery_alert with the recovery notification handed over before the
\* failover notification of the same call
recovery_alert_first(a, new_pool, t) ==
    UNION {
        {[ret |-> TRUE, current_pool |-> Some(new_pool),
          last_alert_times |-> g.last_alert_times,
          failover_start_time |-> None, now |-> g.now,
          attempts |-> Append(a.attempts, Attempt("recovery", g)),
          sent |-> s \o a.sent] :
             s \in IF g.ret
                   THEN {<< x >> : x \in Sent("recovery",
                             [pool |-> new_pool,
                              duration |-> t - a.failover_start_time[1]])}
                   ELSE {<< >>}}
        : g \in can_send_alert(a.last_alert_times, "recovery", t)}

\* recovery_alert with the failover start kept when the alert is refused
recovery_alert_kept(a, new_pool, t) ==
    UNION {
        {[ret |-> TRUE, current_pool |-> Some(new_pool),
          last_alert_times |-> g.last_alert_times,
          failover_start_time |-> IF g.ret THEN None ELSE a.failover_start_time,
          now |-> g.now,
          attempts |-> Append(a.attempts, Attempt("recovery", g)),
          sent |-> a.sent \o s] :
             s \in IF g.ret
                   THEN {<< x >> : x \in Sent("recovery",
                             [pool |-> new_pool,
                              duration |-> t - a.failover_start_time[1]])}
                   ELSE {<< >>}}
        : g \in can_send_alert(a.last_alert_times, "recovery", t)}

\* detect_failover, the recovery alert once the time.time() of the duration
\* has returned t
recovery_alert(a, new_pool, t) ==
    UNION {
        {[ret |-> TRUE, current_pool |-> Some(new_pool),
          last_alert_times |-> g.last_alert_times,
          failover_start_time |-> None, now |-> g.now,
          attempts |-> Append(a.attempts, Attempt("recovery", g)),
          sent |-> a.sent \o s] :
             s \in IF g.ret
                   THEN {<< x >> : x \in Sent("recovery",
                             [pool |-> new_pool,
                              duration |-> t - a.failover_start_time[1]])}
                   ELSE {<< >>}}
        : g \in can_send_alert(a.last_alert_times, "recovery", t)}

\* detect_failover, the pool update and the recovery check, after the
\* failover alert left a behind
recovery_check(a, new_pool) ==
    IF StartsWith(Lower(new_pool), blue) /\ Truthy(a.failover_start_time)
    THEN UNION {recovery_alert(a, new_pool, t) : t \in Reads(a.now)}
    ELSE {[ret |-> TRUE, current_pool |-> Some(new_pool),
           last_alert_times |-> a.last_alert_times,
           failover_start_time |-> a.failover_start_time, now |-> a.now,
           attempts |-> a.attempts, sent |-> a.sent]}

\* detect_failover with the first pool seen treated as a change of pool
detect_failover_eager(cp, lat, fst, new_pool, clk) ==
    IF cp = None \/ cp[1] # new_pool
    THEN UNION {recovery_check(a, new_pool) :
                    a \in failover_alert(IF cp = None THEN Some(Unknown) ELSE cp,
                                         lat, fst, new_pool, clk)}
    ELSE {[ret |-> FALSE, current_pool |-> cp, last_alert_times |-> lat,
           failover_start_time |-> fst, now |-> clk,
           attempts |-> << >>, sent |-> << >>]}

\* detect_failover(new_pool) when the clock read clk last: its possible
\* outcomes
detect_failover(cp, lat, fst, new_pool, clk) ==
    IF cp = None
    THEN {[ret |-> FALSE, current_pool |-> Some(new_pool),
           last_alert_times |-> lat, failover_start_time |-> fst, now |-> clk,
           attempts |-> << >>, sent |-> << >>]}
    ELSE IF cp[1] # new_pool
    THEN UNION {recovery_check(a, new_pool) :
                    a \in failover_alert(cp, lat, fst, new_pool, clk)}
    ELSE {[ret |-> FALSE, current_pool |-> cp, last_alert_times |-> lat,
           failover_start_time |-> fst, now |-> clk,
           attempts |-> << >>, sent |-> << >>]}

\* ------------------------------------------------------- ErrorRateMonitor

\* check_error_rate without the test of the sample size
check_error_rate_unguarded(w, cp, lat, clk) ==
    LET error_rate == get_error_rate(w)
        active_pool == IF cp # None /\ cp[1] # << >> THEN cp[1] ELSE Unknown
    IN  IF RateExceeds(error_rate, ERROR_RATE_THRESHOLD)
        THEN UNION {
                 {[last_alert_times |-> g.last_alert_times, now |-> g.now,
                   attempts |-> << Attempt("error_rate", g) >>,
                   sent |-> s] :
                      s \in IF g.ret
                            THEN {<< x >> : x \in Sent("error_rate",
                                      [error_rate |-> error_rate,
                                       active_pool |-> active_pool])}
                            ELSE {<< >>}}
                 : g \in can_send_alert(lat, "error_rate", clk)}
        ELSE {[last_alert_times |-> lat, now |-> clk,
               attempts |-> << >>, sent |-> << >>]}

\* check_error_rate() when the clock read clk last: its possible outcomes.
\* len(window) < WINDOW_SIZE * 0.1 is 10 * len < WINDOW_SIZE (the product is
\* exact in doubles for the window sizes of the model)
check_error_rate(w, cp, lat, clk) ==
    IF 10 * Len(w) < WINDOW_SIZE
    THEN {[last_alert_times |-> lat, now |-> clk,
           attempts |-> << >>, sent |-> << >>]}
    ELSE LET error_rate == get_error_rate(w)
             active_pool == IF cp # None /\ cp[1] # << >> THEN cp[1] ELSE Unknown
         IN  IF RateExceeds(error_rate, ERROR_RATE_THRESHOLD)
             THEN UNION {
                      {[last_alert_times |-> g.last_alert_times, now |-> g.now,
                        attempts |-> << Attempt("error_rate", g) >>,
                        sent |-> s] :
                           s \in IF g.ret
                                 THEN {<< x >> : x \in Sent("error_rate",
                                           [error_rate |-> error_rate,
                                            active_pool |-> active_pool])}
                                 ELSE {<< >>}}
                      : g \in can_send_alert(lat, "error_rate", clk)}
             ELSE {[last_alert_times |-> lat, now |-> clk,
                    attempts |-> << >>, sent |-> << >>]}

\* -------------------------------------------------------------- main loop
Quiet(lat, clk) ==
    [last_alert_times |-> lat, now |-> clk, attempts |-> << >>, sent |-> << >>]

\* main's loop when parse_log_line returned None: the line is dropped
skip_line(w, cp, lat, fst, total, clk) ==
    [parsed |-> FALSE, request_window |-> w, current_pool |-> cp,
     last_alert_times |-> lat, failover_start_time |-> fst,
     total_requests |-> total, now |-> clk, failover |-> None,
     attempts |-> << >>, sent |-> << >>, checked |-> FALSE]

\* process_line with check_error_rate given the pool that was active before
\* the line
process_line_stale_pool(parsed, w, cp, lat, fst, total, clk, arrival) ==
    UNION { UNION { {
        [parsed |-> TRUE, request_window |-> a.request_window,
         current_pool |-> f.current_pool,
         last_alert_times |-> c.last_alert_times,
         failover_start_time |-> f.failover_start_time,
         total_requests |-> a.total_requests, now |-> c.now,
         failover |-> Some(f.ret),
         attempts |-> f.attempts \o c.attempts,
         sent |-> f.sent \o c.sent,
         checked |-> a.total_requests % CHECK_EVERY = 0]
        : c \in IF a.total_requests % CHECK_EVERY = 0
                THEN check_error_rate(a.request_window, cp,
                                      f.last_alert_times, f.now)
                ELSE {Quiet(f.last_alert_times, f.now)} }
      : f \in detect_failover(cp, lat, fst, parsed.pool, a.now) }
    : a \in add_request(w, total, parsed.upstream_status, parsed.pool, clk,
                        arrival) }

\* main's loop when parse_log_line returned parsed: add_request, then
\* detect_failover, then check_error_rate after every CHECK_EVERY-th request
process_line(parsed, w, cp, lat, fst, total, clk, arrival) ==
    UNION { UNION { {
        [parsed |-> TRUE, request_window |-> a.request_window,
         current_pool |-> f.current_pool,
         last_alert_times |-> c.last_alert_times,
         failover_start_time |-> f.failover_start_time,
         total_requests |-> a.total_requests, now |-> c.now,
         failover |-> Some(f.ret),
         attempts |-> f.attempts \o c.attempts,
         sent |-> f.sent \o c.sent,
         checked |-> a.total_requests % CHECK_EVERY = 0]
        : c \in IF a.total_requests % CHECK_EVERY = 0
                THEN check_error_rate(a.request_window, f.current_pool,
                                      f.last_alert_times, f.now)
                ELSE {Quiet(f.last_alert_times, f.now)} }
      : f \in detect_failover(cp, lat, fst, parsed.pool, a.now) }
    : a \in add_request(w, total, parsed.upstream_status, parsed.pool, clk,
                        arrival) }

\* main with the lines it rejects counted as requests
main_counting_rejects(line, w, cp, lat, fst, total, clk, arrival) ==
    UNION {
        IF parsed = None
        THEN {[skip_line(w, cp, lat, fst, total, clk)
                   EXCEPT !.total_requests = total + 1]}
        ELSE process_line(parsed[1], w, cp, lat, fst, total, clk, arrival)
        : parsed \in {parse_log_line(line)} }

\* the body of main's loop for one line when the clock read clk last: its
\* possible outcomes (the progress log of every 50th request changes nothing)
main(line, w, cp, lat, fst, total, clk, arrival) ==
    UNION {
        IF parsed = None
        THEN {skip_line(w, cp, lat, fst, total, clk)}
        ELSE process_line(parsed[1], w, cp, lat, fst, total, clk, arrival)
        : parsed \in {parse_log_line(line)} }

\* ------------------------------------------------------------------ inputs
Statuses == {0, 499, 500, 599, 600}

\* the history of grants after the can_send_alert calls in attempts
RECURSIVE RecordGrants(_, _)
RecordGrants(gr, attempts) ==
    IF attempts = << >> THEN gr
    ELSE LET a == Head(attempts)
         IN  RecordGrants(IF a.ret THEN [gr EXCEPT ![a.type] = Some(a.time)] ELSE gr,
                          Tail(attempts))

\* the can_send_alert calls in attempts, each with the time of the grant of
\* its type that came before it (None when there was none)
RECURSIVE Annotate(_, _)
Annotate(gr, attempts) ==
    IF attempts = << >> THEN << >>
    ELSE LET a == Head(attempts)
         IN  << [type |-> a.type, time |-> a.time, ret |-> a.ret,
                 previous |-> gr[a.type]] >>
             \o Annotate(RecordGrants(gr, << a >>), Tail(attempts))

Op(op, arg, ret, attempts, sent, checked) ==
    [op |-> op, arg |-> arg, ret |-> ret, attempts |-> attempts, sent |-> sent,
     checked |-> checked]

\* ------------------------------------------------------------------- Init
\* WatcherState.__init__ and the start of the history
Fresh ==
    /\ request_window = << >>
    /\ current_pool = None
    /\ last_alert_times = << >>
    /\ failover_start_time = None
    /\ total_requests = 0
    /\ calls = 0
    /\ lastOp = Op("init", << >>, None, << >>, << >>, FALSE)
    /\ grants = [a \in AlertTypes |-> None]
    /\ left_primary = [since |-> None, pending |-> FALSE]

\* the gate and the failover detector, called in any order
Init ==
    /\ SLACK_WEBHOOK_URL \in BOOLEAN
    /\ ERROR_RATE_THRESHOLD = DEFAULT_ERROR_RATE_THRESHOLD
    /\ WINDOW_SIZE = DEFAULT_WINDOW_SIZE
    /\ ALERT_COOLDOWN_SEC \in 1..MaxCooldown
    /\ MAINTENANCE_MODE \in BOOLEAN
    /\ now \in MinStart..MaxStart
    /\ clock = [ticks |-> 0..MaxTick, cap |-> MaxClock]
    /\ Fresh
    /\ script = << >>
    /\ results = << >>

\* ---------------------------------------------------------------- actions
\* state.can_send_alert(alert_type)
CallCanSendAlert ==
    \E alert_type \in AlertTypes :
        \E g \in can_send_alert(last_alert_times, alert_type, now) :
            /\ last_alert_times' = g.last_alert_times
            /\ now' = g.now
            /\ lastOp' = Op("can_send_alert", << alert_type >>, Some(g.ret),
                            Annotate(grants, << Attempt(alert_type, g) >>),
                            << >>, FALSE)
            /\ grants' = RecordGrants(grants, << Attempt(alert_type, g) >>)
            /\ UNCHANGED <<config, clock, request_window, current_pool,
                           failover_start_time, total_requests, calls,
                           left_primary, driver>>

\* detect_failover(new_pool)
CallDetectFailover ==
    \E new_pool \in Pools :
        \E r \in detect_failover(current_pool, last_alert_times,
                                 failover_start_time, new_pool, now) :
            /\ current_pool' = r.current_pool
            /\ last_alert_times' = r.last_alert_times
            /\ failover_start_time' = r.failover_start_time
            /\ now' = r.now
            /\ lastOp' = Op("detect_failover", << new_pool >>, Some(r.ret),
                            Annotate(grants, r.attempts), r.sent, FALSE)
            /\ grants' = RecordGrants(grants, r.attempts)
            /\ UNCHANGED <<config, clock, request_window, total_requests,
                           calls, left_primary, driver>>

Next == CallCanSendAlert \/ CallDetectFailover

Spec == Init /\ [][Next]_vars

\* ------------------------------------------------------------ the window
\* the sliding window alone
WindowInit ==
    /\ SLACK_WEBHOOK_URL = FALSE
    /\ ERROR_RATE_THRESHOLD = DEFAULT_ERROR_RATE_THRESHOLD
    /\ WINDOW_SIZE \in 1..MaxWindow
    /\ ALERT_COOLDOWN_SEC = DEFAULT_ALERT_COOLDOWN_SEC
    /\ MAINTENANCE_MODE = FALSE
    /\ now \in MinStart..MaxStart
    /\ clock = [ticks |-> 0..MaxTick, cap |-> MaxStart + MaxTick]
    /\ Fresh
    /\ script = << >>
    /\ results = << >>

\* state.add_request(status, pool)
CallAddRequest ==
    /\ calls < MaxRequests
    /\ \E status \in Statuses, pool \in {blue, green} :
           \E a \in add_request(request_window, total_requests, status, pool,
                                now, calls + 1) :
               /\ request_window' = a.request_window
               /\ total_requests' = a.total_requests
               /\ now' = a.now
               /\ calls' = calls + 1
               /\ lastOp' = Op("add_request", << status, pool >>, None,
                               << >>, << >>, FALSE)
               /\ UNCHANGED <<config, clock, current_pool, last_alert_times,
                              failover_start_time, grants, left_primary,
                              driver>>

\* state.get_error_rate()
CallGetErrorRate ==
    /\ lastOp' = Op("get_error_rate", << >>,
                    Some(get_error_rate(request_window)), << >>, << >>, FALSE)
    /\ UNCHANGED <<config, state, now, clock, calls, grants, left_primary,
                   driver>>

WindowNext == CallAddRequest \/ CallGetErrorRate

WindowSpec == WindowInit /\ [][WindowNext]_vars

\* ------------------------------------------------- the failover scenario
\* a test that calls detect_failover("blue"), ("green"), ("blue") on a fresh
\* state in the default mode (maintenance off)
ScenarioInit ==
    /\ SLACK_WEBHOOK_URL \in BOOLEAN
    /\ ERROR_RATE_THRESHOLD = DEFAULT_ERROR_RATE_THRESHOLD
    /\ WINDOW_SIZE = DEFAULT_WINDOW_SIZE
    /\ ALERT_COOLDOWN_SEC \in 1..MaxCooldown
    /\ MAINTENANCE_MODE = FALSE
    /\ now \in MinStart..MaxStart
    /\ clock = [ticks |-> 0..MaxTick, cap |-> MaxClock]
    /\ Fresh
    /\ script = << blue, green, blue >>
    /\ results = << >>

\* the test's next detect_failover call
ScriptedDetectFailover ==
    /\ script # << >>
    /\ \E r \in detect_failover(current_pool, last_alert_times,
                                failover_start_time, Head(script), now) :
           /\ current_pool' = r.current_pool
           /\ last_alert_times' = r.last_alert_times
           /\ failover_start_time' = r.failover_start_time
           /\ now' = r.now
           /\ lastOp' = Op("detect_failover", << Head(script) >>, Some(r.ret),
                           Annotate(grants, r.attempts), r.sent, FALSE)
           /\ grants' = RecordGrants(grants, r.attempts)
           /\ script' = Tail(script)
           /\ results' = Append(results, lastOp')
           /\ UNCHANGED <<config, clock, request_window, total_requests, calls,
                          left_primary>>

ScenarioSpec == ScenarioInit /\ [][ScriptedDetectFailover]_vars

\* ------------------------------------------------------------ end to end
\* a log line: the six fields joined by "|"
LogLine(pool, status) ==
    pool \o <<"|", "v", "1", "|">> \o status
         \o <<"|", "a", ":", "8", "0", "|", "0", ".", "0", "0", "3",
              "|", "0", ".", "0", "0", "2">>

\* the stream of the end-to-end test: every 20th line has status 503
E2ELine(i) == LogLine(blue, IF i % 20 = 0 THEN <<"5", "0", "3">> ELSE <<"2", "0", "0">>)

\* main fed WINDOW_SIZE lines at a steady pace, with the default settings
E2EInit ==
    /\ SLACK_WEBHOOK_URL \in BOOLEAN
    /\ ERROR_RATE_THRESHOLD = DEFAULT_ERROR_RATE_THRESHOLD
    /\ WINDOW_SIZE = DEFAULT_WINDOW_SIZE
    /\ ALERT_COOLDOWN_SEC = DEFAULT_ALERT_COOLDOWN_SEC
    /\ MAINTENANCE_MODE = FALSE
    /\ now \in {MinStart, MaxStart, DEFAULT_ALERT_COOLDOWN_SEC,
                 DEFAULT_ALERT_COOLDOWN_SEC + MaxStart}
    /\ \E pace \in 0..MaxPace :
           clock = [ticks |-> {pace},
                    cap |-> (MaxPace + 3) * DEFAULT_ALERT_COOLDOWN_SEC]
    /\ Fresh
    /\ script = [i \in 1..DEFAULT_WINDOW_SIZE |-> E2ELine(i)]
    /\ results = << >>

\* main reads the next line of the stream
FeedLine ==
    /\ script # << >>
    /\ \E r \in main(Head(script), request_window, current_pool,
                      last_alert_times, failover_start_time, total_requests,
                      now, calls + 1) :
           /\ request_window' = r.request_window
           /\ current_pool' = r.current_pool
           /\ last_alert_times' = r.last_alert_times
           /\ failover_start_time' = r.failover_start_time
           /\ total_requests' = r.total_requests
           /\ now' = r.now
           /\ calls' = IF r.parsed THEN calls + 1 ELSE calls
           /\ lastOp' = Op("main", Head(script), r.failover,
                           Annotate(grants, r.attempts), r.sent, r.checked)
           /\ grants' = RecordGrants(grants, r.attempts)
           /\ script' = Tail(script)
           /\ results' = results \o r.sent
           /\ UNCHANGED <<config, clock, left_primary>>

E2ESpec == E2EInit /\ [][FeedLine]_vars

\* ------------------------------------------------------------- the loop
\* a short log line: the six fields joined by "|"
ShortLine(pool, status, request_time) ==
    pool \o <<"|", "v", "|">> \o status \o <<"|", "a", "|">> \o request_time
         \o <<"|", "1">>

\* lines the loop can read: three well-formed ones, the pool of one of them
\* empty, one of two fields, one whose status is not an integer and one whose
\* timing is not a number
TwoFields == blue \o <<"|", "2", "0", "0">>
LoopLines ==
    {ShortLine(blue, <<"2", "0", "0">>, <<"1">>),
     ShortLine(green, <<"5", "0", "0">>, <<"1">>),
     ShortLine(<< >>, <<"5", "0", "2">>, << >>),
     TwoFields,
     ShortLine(green, <<"5", "x">>, <<"1">>),
     ShortLine(blue, <<"2", "0", "0">>, <<"1", "s">>)}

\* what parse_log_line returns for each line the loop can read
Parsed == [line \in LoopLines |-> parse_log_line(line)]

\* main fed any of these lines in any order, with a small window
LoopInit ==
    /\ SLACK_WEBHOOK_URL \in BOOLEAN
    /\ ERROR_RATE_THRESHOLD = DEFAULT_ERROR_RATE_THRESHOLD
    /\ WINDOW_SIZE = MaxWindow
    /\ ALERT_COOLDOWN_SEC \in {1, MaxCooldown}
    /\ MAINTENANCE_MODE = FALSE
    /\ now \in MinStart..MaxStart
    /\ clock = [ticks |-> {0, MaxTick}, cap |-> MaxStart + MaxTick]
    /\ Fresh
    /\ script = << >>
    /\ results = << >>

\* main reads a line; calls counts the lines parse_log_line accepts and
\* results tells that a line was rejected
ReadLine ==
    /\ total_requests < MaxLines
    /\ \E line \in LoopLines :
           \E r \in main(line, request_window, current_pool, last_alert_times,
                         failover_start_time, total_requests, now, calls + 1) :
               /\ request_window' = r.request_window
               /\ current_pool' = r.current_pool
               /\ last_alert_times' = r.last_alert_times
               /\ failover_start_time' = r.failover_start_time
               /\ total_requests' = r.total_requests
               /\ now' = r.now
               /\ calls' = IF Parsed[line] # None THEN calls + 1 ELSE calls
               /\ lastOp' = Op("main", line, r.failover,
                               Annotate(grants, r.attempts), r.sent, r.checked)
               /\ grants' = RecordGrants(grants, r.attempts)
               /\ results' = IF Parsed[line] # None THEN results
                             ELSE << "rejected" >>
               /\ UNCHANGED <<config, clock, left_primary, script>>

LoopSpec == LoopInit /\ [][ReadLine]_vars

\* ------------------------------------------------------------ the parser
\* the values the k-th field of a line takes
FieldChoices(k) ==
    CASE k = 1 -> {blue, <<" ">> \o green \o <<" ">>, << >>}
      [] k = 2 -> {<<"v">>}
      [] k = 3 -> {<<"2", "0", "0">>, << >>, <<" ">>, <<" ", "5", "0", "3", " ">>,
                   <<"+", "5">>, <<"-", "1">>, <<"5", "x">>, <<"1", "_", "0">>,
                   <<"1", ".", "5">>, <<"5", " ", "3">>}
      [] k = 4 -> {<<"a">>}
      [] k = 5 -> {<<"0", ".", "5">>, << >>, <<"\t">>, <<"1", "e", "2">>,
                   <<" ", "1", " ">>, <<"1", ".">>, <<".">>, <<"1", "s">>}
      [] k = 6 -> {<<"1">>, << >>, <<"-">>, <<"n", "a", "n">>}
      [] OTHER -> {<<"x">>}

\* the lines of k fields
RECURSIVE LinesOf(_)
LinesOf(k) ==
    IF k = 1 THEN FieldChoices(1)
    ELSE {l \o <<"|">> \o f : l \in LinesOf(k - 1), f \in FieldChoices(k)}

\* lines of up to MaxFields fields, as they are and as readline yields them
ParseLines ==
    UNION {{l, <<" ">> \o l \o <<"\n">>} : l \in UNION {LinesOf(k) : k \in 1..MaxFields}}

\* parse_log_line alone, given one line
ParseInit ==
    /\ SLACK_WEBHOOK_URL = FALSE
    /\ ERROR_RATE_THRESHOLD = DEFAULT_ERROR_RATE_THRESHOLD
    /\ WINDOW_SIZE = DEFAULT_WINDOW_SIZE
    /\ ALERT_COOLDOWN_SEC = DEFAULT_ALERT_COOLDOWN_SEC
    /\ MAINTENANCE_MODE = FALSE
    /\ now = MinStart
    /\ clock = [ticks |-> {0}, cap |-> MinStart]
    /\ Fresh
    /\ \E line \in ParseLines : script = << line >>
    /\ results = << >>

\* parse_log_line(line)
CallParseLogLine ==
    /\ script # << >>
    /\ lastOp' = Op("parse_log_line", Head(script), parse_log_line(Head(script)),
                    << >>, << >>, FALSE)
    /\ script' = Tail(script)
    /\ UNCHANGED <<config, state, now, clock, calls, grants, left_primary,
                   results>>

ParseSpec == ParseInit /\ [][CallParseLogLine]_vars

\* ------------------------------------------------- the error-rate check
\* the window and check_error_rate, called in any order; the window sizes
\* need one, two and three observations for a sufficient sample
CheckInit ==
    /\ SLACK_WEBHOOK_URL = TRUE
    /\ ERROR_RATE_THRESHOLD \in {DEFAULT_ERROR_RATE_THRESHOLD, 50, 100}
    /\ WINDOW_SIZE \in {MaxWindow, 10 * MaxWindow, 10 * MaxWindow + 1}
    /\ ALERT_COOLDOWN_SEC \in 1..MaxCooldown
    /\ MAINTENANCE_MODE = FALSE
    /\ now \in MinStart..MaxStart
    /\ clock = [ticks |-> 0..MaxTick, cap |-> MaxStart + MaxTick]
    /\ Fresh
    /\ script = << >>
    /\ results = << >>

\* state.add_request(status, "blue") with a 200 or a 503
CallAddBlueRequest ==
    /\ calls < MaxRequests
    /\ \E status \in {200, 503} :
           \E a \in add_request(request_window, total_requests, status, blue,
                                now, calls + 1) :
               /\ request_window' = a.request_window
               /\ total_requests' = a.total_requests
               /\ now' = a.now
               /\ calls' = calls + 1
               /\ lastOp' = Op("add_request", << status, blue >>, None,
                               << >>, << >>, FALSE)
               /\ UNCHANGED <<config, clock, current_pool, last_alert_times,
                              failover_start_time, grants, left_primary,
                              driver>>

\* check_error_rate()
CallCheckErrorRate ==
    \E r \in check_error_rate(request_window, current_pool, last_alert_times,
                              now) :
        /\ last_alert_times' = r.last_alert_times
        /\ now' = r.now
        /\ lastOp' = Op("check_error_rate", << >>, None,
                        Annotate(grants, r.attempts), r.sent, TRUE)
        /\ grants' = RecordGrants(grants, r.attempts)
        /\ UNCHANGED <<config, clock, request_window, current_pool,
                       failover_start_time, total_requests, calls,
                       left_primary, driver>>

CheckNext == CallAddBlueRequest \/ CallCheckErrorRate

CheckSpec == CheckInit /\ [][CheckNext]_vars

\* ---------------------------------------------------- at the threshold
\* a stream whose error rate stays below 7 percent at every check and is 7
\* in 100 at the hundredth line
RateLine(i) ==
    ShortLine(blue,
              IF (i % 15 = 0 /\ i <= 90) \/ i = 100
              THEN <<"5", "0", "3">> ELSE <<"2", "0", "0">>,
              <<"1">>)

\* main fed that stream at a steady pace, the threshold at the default or
\* at 7 percent, the clock past the first cooldown
RateInit ==
    /\ SLACK_WEBHOOK_URL = TRUE
    /\ ERROR_RATE_THRESHOLD \in {DEFAULT_ERROR_RATE_THRESHOLD, 7}
    /\ WINDOW_SIZE = DEFAULT_WINDOW_SIZE
    /\ ALERT_COOLDOWN_SEC = DEFAULT_ALERT_COOLDOWN_SEC
    /\ MAINTENANCE_MODE = FALSE
    /\ now = DEFAULT_ALERT_COOLDOWN_SEC + MinStart
    /\ \E pace \in 0..MaxPace :
           clock = [ticks |-> {pace},
                    cap |-> (MaxPace + 3) * DEFAULT_ALERT_COOLDOWN_SEC]
    /\ Fresh
    /\ script = [i \in 1..100 |-> RateLine(i)]
    /\ results = << >>

RateSpec == RateInit /\ [][FeedLine]_vars

\* ------------------------------------------------------- the detector
\* detect_failover alone, with the history of the departures from the
\* primary pool
DetectorInit ==
    /\ SLACK_WEBHOOK_URL = TRUE
    /\ ERROR_RATE_THRESHOLD = DEFAULT_ERROR_RATE_THRESHOLD
    /\ WINDOW_SIZE = DEFAULT_WINDOW_SIZE
    /\ ALERT_COOLDOWN_SEC \in 1..MaxCooldown
    /\ MAINTENANCE_MODE = FALSE
    /\ now \in MinStart..MaxStart
    /\ clock = [ticks |-> 0..MaxTick, cap |-> MaxClock]
    /\ Fresh
    /\ script = << >>
    /\ results = << >>

\* detect_failover(new_pool); left_primary records between which clock
\* readings the pool went from a primary pool to another one, and forgets
\* that a departure is pending once a recovery notification is sent
ObservePool ==
    \E new_pool \in Pools :
        \E r \in detect_failover(current_pool, last_alert_times,
                                 failover_start_time, new_pool, now) :
            /\ current_pool' = r.current_pool
            /\ last_alert_times' = r.last_alert_times
            /\ failover_start_time' = r.failover_start_time
            /\ now' = r.now
            /\ lastOp' = Op("detect_failover", << new_pool >>, Some(r.ret),
                            Annotate(grants, r.attempts), r.sent, FALSE)
            /\ grants' = RecordGrants(grants, r.attempts)
            /\ left_primary' =
                   IF /\ current_pool # None
                      /\ IsPrimary(current_pool[1])
                      /\ ~IsPrimary(new_pool)
                   THEN [since |-> Some([lo |-> now, hi |-> r.now]),
                         pending |-> TRUE]
                   ELSE IF \E i \in DOMAIN r.sent : r.sent[i].type = "recovery"
                   THEN [left_primary EXCEPT !.pending = FALSE]
                   ELSE left_primary
            /\ UNCHANGED <<config, clock, request_window, total_requests,
                           calls, driver>>

DetectorSpec == DetectorInit /\ [][ObservePool]_vars

\* ================================================================ claims
\* the call the latest step made, and its first can_send_alert call
IsCall(op) == lastOp.op = op
Granted == lastOp.ret = Some(TRUE)

\* C1: two can_send_alert calls that return true for the same alert type are
\* at least ALERT_COOLDOWN_SEC of clock time apart.
C1_GrantsCooldownApart ==
    \A i \in DOMAIN lastOp.attempts :
        LET a == lastOp.attempts[i]
        IN  a.ret /\ a.previous # None
                => a.time - a.previous[1] >= ALERT_COOLDOWN_SEC

\* a second grant of one type, sent by detect_failover
C1_Witness ==
    /\ IsCall("detect_failover")
    /\ \E i \in DOMAIN lastOp.attempts :
           /\ lastOp.attempts[i].ret
           /\ lastOp.attempts[i].previous # None
    /\ lastOp.sent # << >>

\* C2: with maintenance mode off, a can_send_alert call for a type with no
\* recorded send returns true, whatever the clock reads.
C2_FirstCallGranted ==
    [][(/\ lastOp'.op = "can_send_alert"
        /\ ~MAINTENANCE_MODE
        /\ lastOp'.arg[1] \notin DOMAIN last_alert_times)
       => lastOp'.ret = Some(TRUE)]_vars

\* C3: with maintenance mode off and a recorded send for the type,
\* can_send_alert returns true exactly when the clock reading minus the
\* recorded time is at least the cooldown; it then records the reading, and
\* otherwise leaves the record as it was.
C3_CooldownDecides ==
    [][(/\ lastOp'.op = "can_send_alert"
        /\ ~MAINTENANCE_MODE
        /\ lastOp'.arg[1] \in DOMAIN last_alert_times)
       => LET a == lastOp'.arg[1]
              elapsed == now' - last_alert_times[a]
          IN  /\ lastOp'.ret = Some(elapsed >= ALERT_COOLDOWN_SEC)
              /\ a \in DOMAIN last_alert_times'
              /\ last_alert_times'[a] = IF elapsed >= ALERT_COOLDOWN_SEC
                                        THEN now'
                                        ELSE last_alert_times[a]]_vars

\* a call granted again exactly when the cooldown has elapsed
C3_Witness ==
    /\ IsCall("can_send_alert") /\ Granted /\ ~MAINTENANCE_MODE
    /\ LET a == lastOp.attempts[1]
       IN  /\ a.previous # None
           /\ a.time - a.previous[1] = ALERT_COOLDOWN_SEC

\* C4: in maintenance mode every can_send_alert call returns false, the
\* last-sent mapping never changes and nothing is handed to the notifier.
C4_MaintenanceSuppresses ==
    MAINTENANCE_MODE =>
        /\ \A i \in DOMAIN lastOp.attempts : ~lastOp.attempts[i].ret
        /\ lastOp.sent = << >>
        /\ last_alert_times = << >>

\* in maintenance mode, a return to blue long after the cooldown
C4_Witness ==
    /\ MAINTENANCE_MODE
    /\ IsCall("detect_failover") /\ Granted /\ lastOp.arg = << blue >>
    /\ Len(lastOp.attempts) >= 1
    /\ now >= 2 * ALERT_COOLDOWN_SEC

\* C5: a can_send_alert call leaves the recorded time of every other alert
\* type as it was.
C5_TimersIndependent ==
    [][lastOp'.op = "can_send_alert"
       => \A b \in AlertTypes \ {lastOp'.arg[1]} :
              /\ b \in DOMAIN last_alert_times' <=> b \in DOMAIN last_alert_times
              /\ b \in DOMAIN last_alert_times
                     => last_alert_times'[b] = last_alert_times[b]]_vars

\* a grant for one type while another type is inside its cooldown
C5_Witness ==
    /\ IsCall("can_send_alert") /\ Granted
    /\ \E b \in (DOMAIN last_alert_times) \ {lastOp.arg[1]} :
           now - last_alert_times[b] < ALERT_COOLDOWN_SEC

\* C6: the window holds min(calls, WINDOW_SIZE) observations, never more than
\* WINDOW_SIZE, and they are the latest insertions in arrival order.
C6_WindowKeepsLatest ==
    LET n == Len(request_window)
    IN  /\ n = Min(calls, WINDOW_SIZE)
        /\ n <= WINDOW_SIZE
        /\ \A i \in 1..n : request_window[i].arrival = calls - n + i
        /\ IsCall("add_request") /\ n > 0
               => /\ request_window[n].status = lastOp.arg[1]
                  /\ request_window[n].pool = lastOp.arg[2]

\* the oldest observations have been evicted more than once
C6_Witness ==
    /\ IsCall("add_request")
    /\ Len(request_window) = WINDOW_SIZE
    /\ calls >= WINDOW_SIZE + 2
    /\ WINDOW_SIZE > 1

C8_BlueGreenBlue ==
    script = << >> /\ Len(results) = 3 =>
        LET types(k) == [i \in DOMAIN results[k].attempts |->
                            results[k].attempts[i].type]
        IN  /\ results[1].ret = Some(FALSE)
            /\ results[2].ret = Some(TRUE)
            /\ results[3].ret = Some(TRUE)
            /\ types(1) = << >>
            /\ types(2) = << "failover" >>
            /\ types(3) = << "failover", "recovery" >>

\* C9: detect_failover(pool) returns true exactly when an active pool is set
\* and differs from pool; with no active pool it only records pool, with the
\* same pool it changes nothing, and in both cases it calls can_send_alert
\* and the notifier not at all.
C9_FailoverOnlyOnChange ==
    [][lastOp'.op = "detect_failover"
       => LET pool == lastOp'.arg[1]
              quiet == /\ lastOp'.attempts = << >>
                       /\ lastOp'.sent = << >>
                       /\ last_alert_times' = last_alert_times
                       /\ failover_start_time' = failover_start_time
          IN  /\ lastOp'.ret = Some(current_pool # None /\ current_pool[1] # pool)
              /\ current_pool = None => quiet /\ current_pool' = Some(pool)
              /\ current_pool = Some(pool) => quiet /\ current_pool' = current_pool]_vars

\* the same pool observed again while a failover is being timed
C9_Witness ==
    /\ IsCall("detect_failover") /\ ~Granted
    /\ current_pool = Some(lastOp.arg[1])
    /\ failover_start_time # None
    /\ DOMAIN last_alert_times # {}

\* the notifications of one type handed to the notifier by the fed lines
CountSent(rs, alert_type) == Len(SelectSeq(rs, LAMBDA x : x.type = alert_type))

\* the lines were all processed within one cooldown period
WithinOneCooldown ==
    /\ request_window # << >>
    /\ now - request_window[1].timestamp < ALERT_COOLDOWN_SEC

\* C10: 200 lines of one pool, every 20th a 503, WINDOW_SIZE 200, threshold
\* 2 percent, all within one cooldown period: exactly one error_rate
\* notification is handed to the notifier.
C10_OneErrorRateAlert ==
    script = << >> /\ WithinOneCooldown => CountSent(results, "error_rate") = 1

\* C11: a line that parse_log_line rejects leaves the window, the counter,
\* the active pool, the failover start and the last-sent mapping as they
\* were, makes no can_send_alert call, no error-rate check and no
\* notification; the loop goes on, and a parseable line read after it is
\* added to the window, counted and passed to detect_failover.
C11_RejectedLineDropped ==
    [][lastOp'.op = "main"
       => LET rejected == Parsed[lastOp'.arg] = None
              parsed == Parsed[lastOp'.arg][1]
          IN  /\ rejected
                 => /\ UNCHANGED state
                    /\ lastOp'.attempts = << >>
                    /\ lastOp'.sent = << >>
                    /\ ~lastOp'.checked
                    /\ lastOp'.ret = None
              /\ ~rejected /\ results # << >>
                 => /\ total_requests' = total_requests + 1
                    /\ request_window' # << >>
                    /\ LET x == request_window'[Len(request_window')]
                       IN  /\ x.status = parsed.upstream_status
                           /\ x.pool = parsed.pool
                    /\ current_pool' = Some(parsed.pool)
                    /\ lastOp'.ret # None]_vars

\* a failover detected on a line read after a rejected one
C11_Witness ==
    /\ IsCall("main") /\ Granted
    /\ results # << >>
    /\ failover_start_time # None

\* the claim's reading of a line: the fields are what lies between the "|"
Bars(line) == {i \in DOMAIN line : line[i] = "|"}
FieldCount(line) == Cardinality(Bars(line)) + 1

\* where the k-th "|" of the line is (0 before the first field, Len + 1
\* after the last)
BarAt(line, k) ==
    IF k = 0 THEN 0
    ELSE IF k > Cardinality(Bars(line)) THEN Len(line) + 1
    ELSE CHOOSE i \in Bars(line) : Cardinality({j \in Bars(line) : j <= i}) = k

\* the k-th field, with the white space at its two ends removed
Trimmed(line, k) ==
    LET f == SubSeq(line, BarAt(line, k - 1) + 1, BarAt(line, k) - 1)
        ink == {i \in DOMAIN f : ~IsSpace(f[i])}
    IN  IF ink = {} THEN << >>
        ELSE SubSeq(f, CHOOSE i \in ink : \A j \in ink : i <= j,
                       CHOOSE i \in ink : \A j \in ink : i >= j)

\* C12: parse_log_line rejects a line exactly when it has fewer than six
\* fields, or its third field is, trimmed, neither empty nor an integer, or
\* its fifth or sixth field is, trimmed, neither empty nor a number;
\* otherwise it returns the first six fields trimmed, an empty status as 0
\* and an empty timing as 0.0, whatever follows the sixth field.
C12_ParseLogLine ==
    IsCall("parse_log_line") =>
        LET line == lastOp.arg
            t(k) == Trimmed(line, k)
            rejected == \/ FieldCount(line) < 6
                        \/ t(3) # << >> /\ ~IsInt(t(3))
                        \/ t(5) # << >> /\ ~IsFloat(t(5))
                        \/ t(6) # << >> /\ ~IsFloat(t(6))
        IN  IF rejected THEN lastOp.ret = None
            ELSE lastOp.ret =
                 Some([pool |-> t(1), release |-> t(2),
                       upstream_status |-> IF t(3) = << >> THEN 0 ELSE IntValue(t(3)),
                       upstream_addr |-> t(4),
                       request_time |-> IF t(5) = << >> THEN Zero ELSE FloatValue(t(5)),
                       upstream_response_time |->
                           IF t(6) = << >> THEN Zero ELSE FloatValue(t(6))])

\* a line of seven fields with a padded pool, a blank status and a blank
\* timing, accepted
C12_Witness ==
    /\ IsCall("parse_log_line")
    /\ lastOp.ret # None
    /\ FieldCount(lastOp.arg) = 7
    /\ lastOp.ret[1].pool = green
    /\ lastOp.ret[1].upstream_status = 0
    /\ lastOp.ret[1].request_time = Zero
    /\ \E i \in DOMAIN lastOp.arg : lastOp.arg[i] = "\t"

\* C13: after every detect_failover(pool) call the active pool is pool,
\* whether or not the failover alert was granted; and after every change of
\* pool onto a primary pool the failover start is unset, whether or not the
\* recovery alert was granted.
C13_StateAdvances ==
    [][lastOp'.op = "detect_failover"
       => /\ current_pool' = Some(lastOp'.arg[1])
          /\ lastOp'.ret = Some(TRUE) /\ IsPrimary(lastOp'.arg[1])
                 => failover_start_time' = None]_vars

\* a return to a primary pool with the failover alert and the recovery alert
\* both refused by the cooldown
C13_Witness ==
    /\ IsCall("detect_failover") /\ Granted /\ ~MAINTENANCE_MODE
    /\ IsPrimary(lastOp.arg[1])
    /\ Len(lastOp.attempts) = 2
    /\ \A i \in 1..2 : ~lastOp.attempts[i].ret /\ lastOp.attempts[i].previous # None
    /\ current_pool = Some(lastOp.arg[1])
    /\ failover_start_time = None

\* the notifications in sent with their deliveries turning out as in flags
Delivered(sent, flags) ==
    [i \in DOMAIN sent |-> [sent[i] EXCEPT !.delivered = flags[i]]]

\* the results a delivery can have: success or failure with a webhook,
\* skipped without one
Deliveries == IF SLACK_WEBHOOK_URL THEN BOOLEAN ELSE {FALSE}

\* what main can do with a line in the current state
Outcomes(line) ==
    IF Parsed[line] = None
    THEN {skip_line(request_window, current_pool, last_alert_times,
                    failover_start_time, total_requests, now)}
    ELSE process_line(Parsed[line][1], request_window, current_pool,
                      last_alert_times, failover_start_time, total_requests,
                      now, calls + 1)

\* C14: the state a line leaves behind does not depend on how the deliveries
\* turn out: whichever way each notification of the step is delivered, failed
\* or skipped, the same clock readings leave the same window, counter, pool,
\* failover start and last-sent mapping; every granted can_send_alert keeps
\* its recorded time, and a call within the cooldown of the recorded time is
\* refused.
C14_StateIgnoresDelivery ==
    \A line \in LoopLines : \A outcomes \in {Outcomes(line)} :
        \A r \in outcomes :
            /\ \A i \in DOMAIN r.attempts :
                   LET a == r.attempts[i]
                   IN  /\ a.ret => /\ a.type \in DOMAIN r.last_alert_times
                                   /\ r.last_alert_times[a.type] = a.time
                       /\ /\ a.type \in DOMAIN last_alert_times
                          /\ a.time - last_alert_times[a.type] < ALERT_COOLDOWN_SEC
                          => ~a.ret
            /\ \A flags \in [DOMAIN r.sent -> Deliveries] :
                   [r EXCEPT !.sent = Delivered(r.sent, flags)] \in outcomes

\* with a webhook configured, a line whose failover notification fails and
\* whose recovery notification is delivered
C14_Witness ==
    /\ SLACK_WEBHOOK_URL
    /\ IsCall("main")
    /\ Len(lastOp.sent) = 2
    /\ ~lastOp.sent[1].delivered
    /\ lastOp.sent[2].delivered
    /\ last_alert_times["failover"] = lastOp.attempts[1].time

\* the 5xx observations in a window
Errors(w) == Len(SelectSeq(w, LAMBDA x : x.status \in 500..599))

\* C15: with fewer observations in the window than 10 percent of
\* WINDOW_SIZE, check_error_rate makes no can_send_alert call, sends no
\* notification and leaves the last-sent mapping as it was, whatever the
\* observations are.
C15_SmallSampleNoOp ==
    [][(/\ lastOp'.op = "check_error_rate"
        /\ 100 * Len(request_window) < 10 * WINDOW_SIZE)
       => /\ lastOp'.attempts = << >>
          /\ lastOp'.sent = << >>
          /\ last_alert_times' = last_alert_times]_vars

\* a check of two observations, both 5xx, in a window of 21, at a time when
\* an alert would have been granted
C15_Witness ==
    /\ IsCall("check_error_rate")
    /\ 10 * Len(request_window) < WINDOW_SIZE
    /\ Len(request_window) >= 2
    /\ Errors(request_window) = Len(request_window)
    /\ lastOp.attempts = << >>
    /\ now >= ALERT_COOLDOWN_SEC
    /\ "error_rate" \notin DOMAIN last_alert_times

\* C16: with a sufficient sample, check_error_rate calls
\* can_send_alert('error_rate') exactly when the error rate of the window,
\* 100 * errors / length, is greater than ERROR_RATE_THRESHOLD; at a rate
\* equal to the threshold it makes no call and leaves the last-sent mapping
\* as it was.
C16_StrictThreshold ==
    [][(/\ lastOp'.op \in {"main", "check_error_rate"}
        /\ lastOp'.checked
        /\ 10 * Len(request_window') >= WINDOW_SIZE)
       => LET n == Len(request_window')
              e == Errors(request_window')
              attempted == \E i \in DOMAIN lastOp'.attempts :
                               lastOp'.attempts[i].type = "error_rate"
          IN  /\ attempted <=> 100 * e > ERROR_RATE_THRESHOLD * n
              /\ 100 * e = ERROR_RATE_THRESHOLD * n
                     => last_alert_times' = last_alert_times]_vars

\* what C17 says of a step in which main reads a line, an empty pool name
\* being reported as it is or as unknown
EveryTenth(unknown) ==
    lastOp'.op = "main"
       => LET accepted == Parsed[lastOp'.arg] # None
              parsed == Parsed[lastOp'.arg][1]
              n == Len(request_window')
              attempted == \E i \in DOMAIN lastOp'.attempts :
                               lastOp'.attempts[i].type = "error_rate"
          IN  /\ total_requests' = calls'
              /\ total_requests' >= total_requests
              /\ lastOp'.checked <=> accepted /\ calls' % 10 = 0
              /\ attempted => lastOp'.checked
              /\ (/\ lastOp'.checked
                  /\ 10 * n >= WINDOW_SIZE
                  /\ 100 * Errors(request_window') > ERROR_RATE_THRESHOLD * n)
                 => attempted
              /\ \A i \in DOMAIN lastOp'.sent :
                     lastOp'.sent[i].type = "error_rate"
                     => /\ request_window'[n].arrival = calls'
                        /\ request_window'[n].pool = parsed.pool
                        /\ current_pool' = Some(parsed.pool)
                        /\ lastOp'.sent[i].data.error_rate.num * n =
                               100 * Errors(request_window')
                                   * lastOp'.sent[i].data.error_rate.den
                        /\ lastOp'.sent[i].data.active_pool =
                               IF parsed.pool = << >> THEN unknown
                               ELSE parsed.pool

\* C17: total_requests is the number of lines parsed so far and never
\* decreases; check_error_rate is called exactly after the parsed lines whose
\* running count is a multiple of 10, once the observation is in the window
\* and has been passed to detect_failover; and an error_rate notification
\* reports the pool of that observation as active_pool.
C17_EveryTenth == [][EveryTenth(<< >>)]_vars

\* C17 as the code has it: an error_rate notification reports the pool of
\* the observation as active_pool, and "Unknown" when that pool is the empty
\* string.
C17_EveryTenthOrUnknown == [][EveryTenth(Unknown)]_vars

\* the tenth parsed line, read after a rejected one, changes the pool and is
\* followed by an error_rate notification
C17_Witness ==
    /\ IsCall("main") /\ Granted /\ lastOp.checked
    /\ total_requests = 10
    /\ results # << >>
    /\ \E i \in DOMAIN lastOp.sent :
           /\ lastOp.sent[i].type = "error_rate"
           /\ lastOp.sent[i].data.active_pool = green

\* the place of an alert type in the order of the state transitions of one
\* line: the change of pool, the return to the primary pool, the check
Rank(alert_type) ==
    CASE alert_type = "failover" -> 1
      [] alert_type = "recovery" -> 2
      [] alert_type = "error_rate" -> 3

\* C18: notifications are handed to the notifier in the order of the state
\* transitions that trigger them: each one while the line that triggers it is
\* being processed, hence before any notification of a later line, and
\* within one line the failover notification before the recovery
\* notification (and both before the error_rate notification).
C18_NotificationsInOrder ==
    [][lastOp'.op = "main"
       => LET sent == lastOp'.sent
          IN  /\ sent # << >> => Parsed[lastOp'.arg] # None
              /\ \A i, j \in DOMAIN sent :
                     i < j => Rank(sent[i].type) < Rank(sent[j].type)
              /\ \A i \in DOMAIN sent :
                     LET pool == Parsed[lastOp'.arg][1].pool
                     IN  /\ sent[i].type = "failover"
                            => /\ current_pool = Some(sent[i].data.from_pool)
                               /\ sent[i].data.to_pool = pool
                               /\ sent[i].data.from_pool # pool
                         /\ sent[i].type = "recovery"
                            => /\ sent[i].data.pool = pool
                               /\ current_pool # Some(pool)
                         /\ sent[i].type = "error_rate"
                            => sent[i].data.error_rate.num * Len(request_window')
                                   = 100 * Errors(request_window')
                                         * sent[i].data.error_rate.den]_vars

\* one line that triggers a failover, a recovery and an error_rate
\* notification
C18_Witness ==
    /\ IsCall("main")
    /\ Len(lastOp.sent) = 3
    /\ lastOp.sent[1].type = "failover"
    /\ lastOp.sent[2].type = "recovery"
    /\ lastOp.sent[3].type = "error_rate"

\* C19: the duration of a recovery notification that follows a departure
\* from a primary pool is the clock time since that departure, the time spent
\* on the other pool: not less than the time from the end of the call that
\* saw the departure to the start of this one, and not more than the time
\* from its start to the end of this one.
C19_DurationOnBackup ==
    [][lastOp'.op = "detect_failover"
       => \A i \in DOMAIN lastOp'.sent :
              lastOp'.sent[i].type = "recovery" /\ left_primary.pending
              => LET duration == lastOp'.sent[i].data.duration
                     left == left_primary.since[1]
                 IN  /\ duration >= now - left.hi
                     /\ duration <= now' - left.lo]_vars

\* C20: a recovery notification is sent only if, since the previous recovery
\* notification, the active pool went from a primary pool to another one; so
\* a stream that starts on another pool sends none on its first change to
\* "blue".
C20_RecoveryAfterFailover ==
    [][lastOp'.op = "detect_failover"
       => \A i \in DOMAIN lastOp'.sent :
              lastOp'.sent[i].type = "recovery" => left_primary.pending]_vars

====
